---- MODULE Spec2Model ----
(***************************************************************************)
(* Model of the plang arithmetization compiler (plang/src/circuit.rs):     *)
(* construction of a PlangCircuit from the parser's typed node sequence,   *)
(* the five structural checks, derivation of the variable table, set_vals, *)
(* gate lowering (gadget), public_inputs and padded_gates.                 *)
(*                                                                         *)
(* Scalars (BlsScalar) are modelled by integers: every value that occurs   *)
(* is far below the field modulus in absolute value, so field negation,    *)
(* addition and multiplication agree with the integer operations.          *)
(* A usize is modelled by the set of positions of its one-bits.            *)
(***************************************************************************)
EXTENDS Integers, Sequences, FiniteSets, TLC

VARIABLES grammar, pc, err, exprs, vars, iterOrder, call, out, files

vars_all == <<grammar, pc, err, exprs, vars, iterOrder, call, out, files>>

\* ---------------------------------------------------------------- bounds

\* Largest number of equations of a generated multi-equation input.
MaxExprs == 2
\* Largest value handed to set_vals.
MaxVal == 2
\* Largest number of (name, value) pairs of one set_vals call.
MaxPairs == 2
\* Tables with at most this many names are iterated in every order; larger
\* tables in ascending and in descending name order only.
MaxPermNames == 2
\* Largest number of equations of a generated repeated-equation input.
MaxPadExprs == 66

\* ------------------------------------------------------- names and order

\* The variable names in use, in ascending Ord::cmp (byte-wise) order.
NameOrder == <<"a", "b", "c", "d", "e", "z">>

Names == {NameOrder[i] : i \in 1..Len(NameOrder)}

\* Position of a name in the ascending order.
Rank(n) == CHOOSE i \in 1..Len(NameOrder) : NameOrder[i] = n

\* Ord::cmp(name1, name2) == Less
NameLt(n1, n2) == Rank(n1) < Rank(n2)

\* --------------------------------------------------------- Option values

None == <<>>
Some(x) == <<x>>
IsSome(o) == Len(o) = 1
Unwrap(o) == o[1]

\* A map (HashMap) is a function; EmptyMap has no key.
EmptyMap == [k \in {} |-> 0]

\* HashMap::insert: sets or replaces the value of the key.
MapInsert(m, k, v) == (k :> v) @@ m

\* ------------------------------------------------------------ parse nodes

\* An inner node of a term: a coefficient literal or a variable name.
CoeffNode(k) == [rule |-> "coeff", str |-> "", num |-> k]
VarNode(n) == [rule |-> "var", str |-> n, num |-> 0]

\* The nodes of an equation.
SignNode(s) == [rule |-> "sign", str |-> s, inner |-> <<>>]
TriNode(c, l, r) == [rule |-> "tri_term", str |-> "", inner |-> c \o <<VarNode(l), VarNode(r)>>]
BiNode(c, v) == [rule |-> "bi_term", str |-> "", inner |-> c \o <<VarNode(v)>>]
PubNode(n) == [rule |-> "var", str |-> n, inner |-> <<>>]

\* The top-level pairs of a parsed text: equations, then the end of input.
ExprPair(nodes) == [rule |-> "expr", inner |-> nodes]
EoiPair == [rule |-> "EOI", inner |-> <<>>]

\* ----------------------------------------------------------- from_grammar

TriTerm(minus, coeff, lvar, rvar) ==
    [minus |-> minus, coeff |-> coeff, lvar |-> lvar, rvar |-> rvar]
BiTerm(minus, coeff, var) == [minus |-> minus, coeff |-> coeff, var |-> var]
Public(minus, var) == [minus |-> minus, var |-> var]
PlangExpr(tri, bis, public) == [tri |-> tri, bis |-> bis, public |-> public]

\* The coefficient of a term: 1 unless a coeff node sets it (the last wins).
RECURSIVE TermCoeff(_, _, _)
TermCoeff(inner, i, coeff) ==
    IF i > Len(inner) THEN coeff
    ELSE TermCoeff(inner, i + 1,
                   IF inner[i].rule = "coeff" THEN inner[i].num ELSE coeff)

\* The variable names of a term, in node order.
RECURSIVE TermVars(_, _)
TermVars(inner, i) ==
    IF i > Len(inner) THEN <<>>
    ELSE (IF inner[i].rule = "var" THEN <<inner[i].str>> ELSE <<>>)
         \o TermVars(inner, i + 1)

\* As ScanExpr, but a sign applies to the next term only.
RECURSIVE ScanExpr_OwnSign(_, _, _)
ScanExpr_OwnSign(nodes, i, st) ==
    IF i > Len(nodes) THEN st
    ELSE LET node == nodes[i] IN
      ScanExpr_OwnSign(nodes, i + 1,
        CASE node.rule = "sign" ->
               [st EXCEPT !.minus = (node.str = "-")]
          [] node.rule = "tri_term" ->
               LET vs == TermVars(node.inner, 1) IN
               [st EXCEPT !.minus = FALSE,
                          !.tris = Append(@,
                    TriTerm(st.minus, TermCoeff(node.inner, 1, 1),
                            vs[Len(vs) - 1], vs[Len(vs)]))]
          [] node.rule = "bi_term" ->
               LET vs == TermVars(node.inner, 1) IN
               [st EXCEPT !.minus = FALSE,
                          !.bis = Append(@,
                    BiTerm(st.minus, TermCoeff(node.inner, 1, 1), vs[Len(vs)]))]
          [] node.rule = "var" ->
               [st EXCEPT !.minus = FALSE,
                          !.public = Some(Public(st.minus, node.str))]
          [] OTHER -> st)

\* The scan of one equation's nodes: st carries minus, public, tris, bis.
RECURSIVE ScanExpr(_, _, _)
ScanExpr(nodes, i, st) ==
    IF i > Len(nodes) THEN st
    ELSE LET node == nodes[i] IN
      ScanExpr(nodes, i + 1,
        CASE node.rule = "sign" ->
               [st EXCEPT !.minus = (node.str = "-")]
          [] node.rule = "tri_term" ->
               LET vs == TermVars(node.inner, 1) IN
               [st EXCEPT !.tris = Append(@,
                    TriTerm(st.minus, TermCoeff(node.inner, 1, 1),
                            vs[Len(vs) - 1], vs[Len(vs)]))]
          [] node.rule = "bi_term" ->
               LET vs == TermVars(node.inner, 1) IN
               [st EXCEPT !.bis = Append(@,
                    BiTerm(st.minus, TermCoeff(node.inner, 1, 1), vs[Len(vs)]))]
          [] node.rule = "var" ->
               [st EXCEPT !.public = Some(Public(st.minus, node.str))]
          [] OTHER -> st)

ScanInit == [minus |-> FALSE, public |-> None, tris |-> <<>>, bis |-> <<>>]

\* The equation the scan of one expr pair pushes.
ScannedExpr(pair) ==
    LET st == ScanExpr(pair.inner, 1, ScanInit) IN
    PlangExpr(IF Len(st.tris) = 0 THEN None ELSE Some(st.tris[Len(st.tris)]),
              st.bis, st.public)

\* The loop over the pairs: only expr pairs are scanned; the first one with
\* more than one quadratic term ends the loop with TooManyTriTerms (the only
\* error of this loop), otherwise every one pushes its equation, in order.

\* As ScanPairs, but the number of quadratic terms is not checked.
ScanPairs_Unchecked(pairs) ==
    LET es == SelectSeq(pairs, LAMBDA pair : pair.rule = "expr") IN
    [err |-> "none", exprs |-> [i \in 1..Len(es) |-> ScannedExpr(es[i])]]

ScanPairs(pairs) ==
    LET es == SelectSeq(pairs, LAMBDA pair : pair.rule = "expr") IN
    IF \E i \in 1..Len(es) : Len(ScanExpr(es[i].inner, 1, ScanInit).tris) > 1
    THEN [err |-> "TooManyTriTerms", exprs |-> <<>>]
    ELSE [err |-> "none", exprs |-> [i \in 1..Len(es) |-> ScannedExpr(es[i])]]

\* ------------------------------------------------------------- the checks

TriVars(expr) ==
    IF IsSome(expr.tri) THEN {Unwrap(expr.tri).lvar, Unwrap(expr.tri).rvar} ELSE {}
BiVars(expr) == {expr.bis[j].var : j \in 1..Len(expr.bis)}
PublicVars(expr) == IF IsSome(expr.public) THEN {Unwrap(expr.public).var} ELSE {}

\* As check_different_tri_vars, but every equation passes.
check_different_tri_vars_Off(es) == "none"

check_different_tri_vars(es) ==
    IF \E i \in 1..Len(es) :
          IsSome(es[i].tri) /\ Unwrap(es[i].tri).lvar = Unwrap(es[i].tri).rvar
    THEN "SameTriVars" ELSE "none"

check_less_than_5_vars(es) ==
    IF \E i \in 1..Len(es) :
          Cardinality(PublicVars(es[i]) \cup TriVars(es[i]) \cup BiVars(es[i])) = 5
    THEN "TooManyVars" ELSE "none"

check_no_repeat_vars_in_bis(es) ==
    IF \E i \in 1..Len(es) : Cardinality(BiVars(es[i])) # Len(es[i].bis)
    THEN "RepeatedVars" ELSE "none"

check_public_different_from_other_vars(es) ==
    IF \E i \in 1..Len(es) :
          /\ IsSome(es[i].public)
          /\ Unwrap(es[i].public).var \in TriVars(es[i]) \cup BiVars(es[i])
    THEN "PublicVarNotSingular" ELSE "none"

\* ------------------------------------------------------- vars_from_exprs

Witness(val) == [role |-> "Witness", val |-> val]
PublicInput(val) == [role |-> "PublicInput", val |-> val]

\* The inserts one equation makes, in order: public, tri.lvar, tri.rvar, bis.
ExprInserts(expr) ==
    (IF IsSome(expr.public)
     THEN <<[name |-> Unwrap(expr.public).var, wop |-> PublicInput(0)]>>
     ELSE <<>>)
    \o (IF IsSome(expr.tri)
        THEN <<[name |-> Unwrap(expr.tri).lvar, wop |-> Witness(0)],
               [name |-> Unwrap(expr.tri).rvar, wop |-> Witness(0)]>>
        ELSE <<>>)
    \o [j \in 1..Len(expr.bis) |-> [name |-> expr.bis[j].var, wop |-> Witness(0)]]

RECURSIVE InsertAll(_, _, _)
InsertAll(m, ins, i) ==
    IF i > Len(ins) THEN m
    ELSE InsertAll(MapInsert(m, ins[i].name, ins[i].wop), ins, i + 1)

\* The table the inserts of one equation make.
ExprTable(expr) == InsertAll(EmptyMap, ExprInserts(expr), 1)

\* As vars_from_exprs, but only the last equation inserts.
vars_from_exprs_LastOnly(es) ==
    IF Len(es) = 0 THEN EmptyMap ELSE ExprTable(es[Len(es)])

\* vars_from_exprs: the equations insert in order and HashMap::insert
\* replaces the value of a key that is present, so the table holds for each
\* name the value that the last equation naming it inserts.
vars_from_exprs(es) ==
    LET Inserted(i) == DOMAIN ExprTable(es[i])
        Last(n) == CHOOSE i \in 1..Len(es) :
                     /\ n \in Inserted(i)
                     /\ \A k \in (i + 1)..Len(es) : n \notin Inserted(k)
    IN [n \in UNION {Inserted(i) : i \in 1..Len(es)} |-> ExprTable(es[Last(n)])[n]]

\* from_grammar: the scan, then the four checks in order, then the table.
from_grammar(pairs) ==
    LET scan == ScanPairs(pairs)
        es == scan.exprs
        c1 == check_different_tri_vars(es)
        c2 == check_less_than_5_vars(es)
        c3 == check_no_repeat_vars_in_bis(es)
        c4 == check_public_different_from_other_vars(es)
        e == IF scan.err # "none" THEN scan.err
             ELSE IF c1 # "none" THEN c1
             ELSE IF c2 # "none" THEN c2
             ELSE IF c3 # "none" THEN c3
             ELSE c4
    IN IF e # "none"
       THEN [err |-> e, exprs |-> <<>>, vars |-> EmptyMap]
       ELSE [err |-> "none", exprs |-> es, vars |-> vars_from_exprs(es)]

\* ---------------------------------------------------------------- set_vals

SetOk == [ok |-> TRUE, name |-> ""]
NoSuchValue(name) == [ok |-> FALSE, name |-> name]

\* set_vals: the pairs are applied in order; a vacant entry ends the call
\* with NoSuchValue and inserts nothing; an occupied entry gets the value
\* under the role it has.
\* As set_vals_from, but every value is stored as a witness.
RECURSIVE set_vals_from_RoleLost(_, _, _)
set_vals_from_RoleLost(m, vals, i) ==
    IF i > Len(vals) THEN [vars |-> m, res |-> SetOk]
    ELSE IF vals[i].name \notin DOMAIN m
    THEN [vars |-> m, res |-> NoSuchValue(vals[i].name)]
    ELSE set_vals_from_RoleLost(MapInsert(m, vals[i].name, Witness(vals[i].val)), vals, i + 1)

\* As set_vals_from, but a vacant entry is filled with a witness.
RECURSIVE set_vals_from_Inserting(_, _, _)
set_vals_from_Inserting(m, vals, i) ==
    IF i > Len(vals) THEN [vars |-> m, res |-> SetOk]
    ELSE IF vals[i].name \in DOMAIN m /\ m[vals[i].name].role = "PublicInput"
    THEN set_vals_from_Inserting(MapInsert(m, vals[i].name, PublicInput(vals[i].val)), vals, i + 1)
    ELSE set_vals_from_Inserting(MapInsert(m, vals[i].name, Witness(vals[i].val)), vals, i + 1)

\* As set_vals_from, but a call that names an unknown name stores nothing.
RECURSIVE set_vals_from_Atomic(_, _, _)
set_vals_from_Atomic(m, vals, i) ==
    LET unknown == {k \in i..Len(vals) : vals[k].name \notin DOMAIN m} IN
    IF i > Len(vals) THEN [vars |-> m, res |-> SetOk]
    ELSE IF unknown # {}
    THEN [vars |-> m,
          res |-> NoSuchValue(vals[CHOOSE k \in unknown : \A l \in unknown : k <= l].name)]
    ELSE IF m[vals[i].name].role = "PublicInput"
    THEN set_vals_from_Atomic(MapInsert(m, vals[i].name, PublicInput(vals[i].val)), vals, i + 1)
    ELSE set_vals_from_Atomic(MapInsert(m, vals[i].name, Witness(vals[i].val)), vals, i + 1)

RECURSIVE set_vals_from(_, _, _)
set_vals_from(m, vals, i) ==
    IF i > Len(vals) THEN [vars |-> m, res |-> SetOk]
    ELSE LET name == vals[i].name
             val == vals[i].val
         IN IF name \notin DOMAIN m
            THEN [vars |-> m, res |-> NoSuchValue(name)]
            ELSE IF m[name].role = "PublicInput"
            THEN set_vals_from(MapInsert(m, name, PublicInput(val)), vals, i + 1)
            ELSE set_vals_from(MapInsert(m, name, Witness(val)), vals, i + 1)

set_vals(m, vals) == set_vals_from(m, vals, 1)

\* ------------------------------------------------------------------ gadget

\* Wire 0 is the composer's constant-zero witness; the k-th witness the
\* gadget appends is wire k.
ZeroWire == 0

\* Constraint::new(): every selector zero, every wire the zero witness.
NewConstraint ==
    [q_m |-> 0, q_l |-> 0, q_r |-> 0, q_o |-> 0, pi |-> 0, has_pi |-> FALSE,
     a |-> ZeroWire, b |-> ZeroWire, o |-> ZeroWire]

\* The witnesses of the table, appended in the table's iteration order:
\* ws maps a name to its wire, vals lists the appended values.
RECURSIVE AppendWitnesses(_, _, _, _)
AppendWitnesses(m, order, i, acc) ==
    IF i > Len(order) THEN acc
    ELSE LET vname == order[i] IN
         IF m[vname].role = "Witness"
         THEN AppendWitnesses(m, order, i + 1,
                [ws |-> MapInsert(acc.ws, vname, Len(acc.vals) + 1),
                 vals |-> Append(acc.vals, m[vname].val)])
         ELSE AppendWitnesses(m, order, i + 1, acc)

\* The public term of an equation.
LowerPublic(expr, m, c) ==
    IF ~IsSome(expr.public) THEN [fault |-> "none", c |-> c]
    ELSE LET public == Unwrap(expr.public) IN
         IF public.var \notin DOMAIN m
         THEN [fault |-> "public input isn't in map", c |-> c]
         ELSE IF m[public.var].role # "PublicInput"
         THEN [fault |-> "public is not as public in map", c |-> c]
         ELSE LET val == m[public.var].val IN
              [fault |-> "none",
               c |-> [c EXCEPT !.has_pi = TRUE,
                               !.pi = IF public.minus THEN val ELSE -val]]

\* The quadratic term of an equation.
LowerTri(expr, ws, c) ==
    IF ~IsSome(expr.tri) THEN [fault |-> "none", c |-> c, tri_wits |-> None]
    ELSE LET tri == Unwrap(expr.tri) IN
         IF tri.lvar \notin DOMAIN ws \/ tri.rvar \notin DOMAIN ws
         THEN [fault |-> "tri term witness not in witness map", c |-> c,
               tri_wits |-> None]
         ELSE LET lwit == ws[tri.lvar]
                  rwit == ws[tri.rvar]
              IN [fault |-> "none",
                  c |-> [c EXCEPT !.q_m = IF tri.minus THEN -tri.coeff ELSE tri.coeff,
                                  !.a = lwit, !.b = rwit],
                  tri_wits |-> Some([lwit |-> lwit, rwit |-> rwit])]

\* One linear term of an equation that has a quadratic term.
LowerBiWithTri(bi, wit, tw, c) ==
    CASE wit # tw.lwit /\ wit # tw.rwit ->
           [fault |-> "none",
            c |-> [c EXCEPT !.o = wit,
                            !.q_o = IF bi.minus THEN bi.coeff ELSE -bi.coeff]]
      [] wit = tw.lwit /\ wit # tw.rwit ->
           [fault |-> "none",
            c |-> [c EXCEPT !.q_l = IF bi.minus THEN bi.coeff ELSE -bi.coeff]]
      [] wit # tw.lwit /\ wit = tw.rwit ->
           [fault |-> "none",
            c |-> [c EXCEPT !.q_r = IF bi.minus THEN bi.coeff ELSE -bi.coeff]]
      [] OTHER -> [fault |-> "witness is both lwit and rwit", c |-> c]

\* As LowerBiNoTri, but every term is bound to wire A.
LowerBiNoTri_AlwaysLeft(bi, wit, bi_num, c) ==
    IF bi_num <= 2
    THEN [fault |-> "none",
          c |-> [c EXCEPT !.a = wit,
                          !.q_l = IF bi.minus THEN -bi.coeff ELSE bi.coeff]]
    ELSE [fault |-> "there should be max 3 bi terms", c |-> c]

\* One linear term of an equation that has no quadratic term.
LowerBiNoTri(bi, wit, bi_num, c) ==
    CASE bi_num = 0 ->
           [fault |-> "none",
            c |-> [c EXCEPT !.a = wit,
                            !.q_l = IF bi.minus THEN -bi.coeff ELSE bi.coeff]]
      [] bi_num = 1 ->
           [fault |-> "none",
            c |-> [c EXCEPT !.b = wit,
                            !.q_r = IF bi.minus THEN -bi.coeff ELSE bi.coeff]]
      [] bi_num = 2 ->
           [fault |-> "none",
            c |-> [c EXCEPT !.o = wit,
                            !.q_o = IF bi.minus THEN -bi.coeff ELSE bi.coeff]]
      [] OTHER -> [fault |-> "there should be max 3 bi terms", c |-> c]

\* The loop over the linear terms of an equation.
RECURSIVE LowerBis(_, _, _, _, _, _)
LowerBis(bis, j, ws, tri_wits, bi_num, c) ==
    IF j > Len(bis) THEN [fault |-> "none", c |-> c]
    ELSE LET bi == bis[j] IN
         IF bi.var \notin DOMAIN ws
         THEN [fault |-> "bi term witness not in witness map", c |-> c]
         ELSE LET wit == ws[bi.var]
                  r == IF IsSome(tri_wits)
                       THEN LowerBiWithTri(bi, wit, Unwrap(tri_wits), c)
                       ELSE LowerBiNoTri(bi, wit, bi_num, c)
              IN IF r.fault # "none" THEN r
                 ELSE LowerBis(bis, j + 1, ws, tri_wits,
                               IF IsSome(tri_wits) THEN bi_num ELSE bi_num + 1, r.c)

\* The constraint of one equation, or the fault that stops the lowering.
LowerExpr(expr, m, ws) ==
    LET p == LowerPublic(expr, m, NewConstraint) IN
    IF p.fault # "none" THEN [fault |-> p.fault, c |-> p.c]
    ELSE LET t == LowerTri(expr, ws, p.c) IN
         IF t.fault # "none" THEN [fault |-> t.fault, c |-> t.c]
         ELSE LowerBis(expr.bis, 1, ws, t.tri_wits, 0, t.c)

\* The loop over the equations: one append_gate per equation, in order.
RECURSIVE LowerExprs(_, _, _, _, _)
LowerExprs(es, i, m, ws, gates) ==
    IF i > Len(es) THEN [fault |-> "none", gates |-> gates]
    ELSE LET r == LowerExpr(es[i], m, ws) IN
         IF r.fault # "none" THEN [fault |-> r.fault, gates |-> gates]
         ELSE LowerExprs(es, i + 1, m, ws, Append(gates, r.c))

\* gadget: the witnesses appended and the gates appended, or the fault.
gadget(es, m, order) ==
    LET w == AppendWitnesses(m, order, 1, [ws |-> EmptyMap, vals |-> <<>>])
        r == LowerExprs(es, 1, m, w.ws, <<>>)
    IN [fault |-> r.fault, witnesses |-> w.vals, ws |-> w.ws, gates |-> r.gates]

\* The gates of the hand-written TestCircuit with public values c and d:
\* witness a is wire 1, witness b is wire 2.
TestCircuitGates(c, d) ==
    <<[NewConstraint EXCEPT !.q_l = 1, !.q_r = 1, !.has_pi = TRUE, !.pi = -c,
                            !.a = 1, !.b = 2],
      [NewConstraint EXCEPT !.q_m = 1, !.has_pi = TRUE, !.pi = -d, !.a = 1, !.b = 2]>>

\* ----------------------------------------------------------- public_inputs

\* The (name, value) pairs of the public inputs, in iteration order.
RECURSIVE NamedPinputs(_, _, _)
NamedPinputs(m, order, i) ==
    IF i > Len(order) THEN <<>>
    ELSE (IF m[order[i]].role = "PublicInput"
          THEN <<[name |-> order[i], val |-> m[order[i]].val]>>
          ELSE <<>>)
         \o NamedPinputs(m, order, i + 1)

\* Insertion of one pair into a sequence sorted by name, after its equals.
RECURSIVE InsertSorted(_, _, _)
InsertSorted(s, x, i) ==
    IF i > Len(s) THEN Append(s, x)
    ELSE IF NameLt(x.name, s[i].name)
    THEN SubSeq(s, 1, i - 1) \o <<x>> \o SubSeq(s, i, Len(s))
    ELSE InsertSorted(s, x, i + 1)

\* sort_by(Ord::cmp on the names): a stable sort.
RECURSIVE SortByName(_, _, _)
SortByName(s, i, acc) ==
    IF i > Len(s) THEN acc
    ELSE SortByName(s, i + 1, InsertSorted(acc, s[i], 1))

\* As public_inputs, but without the sort.
public_inputs_Unsorted(m, order) ==
    LET named_pinputs == NamedPinputs(m, order, 1)
    IN [k \in 1..Len(named_pinputs) |-> named_pinputs[k].val]

public_inputs(m, order) ==
    LET named_pinputs == SortByName(NamedPinputs(m, order, 1), 1, <<>>)
    IN [k \in 1..Len(named_pinputs) |-> named_pinputs[k].val]

\* The public-input vector of the verify command: the supplied pairs sorted
\* by name (a stable sort), each value converted to a scalar, a negative
\* one as the negation of the scalar of its magnitude.
verify_pinputs(vals) ==
    LET sorted == SortByName(vals, 1, <<>>)
    IN [k \in 1..Len(sorted) |->
           IF sorted[k].val < 0 THEN -(-sorted[k].val) ELSE sorted[k].val]

\* ------------------------------------------------------------ padded_gates

\* The width of usize.
WordBits == 64

\* 1 << s on a usize: the shift overflows when s is not below the width;
\* a build with overflow checks panics, a build without them shifts by
\* s modulo the width.
Shl1(s, checked) ==
    IF s < WordBits THEN [panic |-> FALSE, bits |-> {s}]
    ELSE IF checked THEN [panic |-> TRUE, bits |-> {}]
    ELSE [panic |-> FALSE, bits |-> {s % WordBits}]

\* The least k with 2^k >= n.
RECURSIVE CeilLog2From(_, _)
CeilLog2From(n, k) == IF 2^k >= n THEN k ELSE CeilLog2From(n, k + 1)
CeilLog2(n) == CeilLog2From(n, 0)

\* As padded_gates, but the next power of two at or above twice the number
\* of equations.
padded_gates_NextPowerOfTwo(es, checked) == Shl1(CeilLog2(Len(es)) + 1, checked)

\* As padded_gates, but shifting by the number of equations.
padded_gates_ShiftByLen(es, checked) == Shl1(Len(es), checked)

padded_gates(es, checked) == Shl1(Len(es) + 1, checked)

\* ------------------------------------------------------------------ inputs

Signs == {"+", "-"}

\* Sequences over S of length at most n.
SeqsUpTo(S, n) == UNION {[1..k -> S] : k \in 0..n}

\* The concatenation of a sequence of sequences.
RECURSIVE Flatten(_)
Flatten(ss) == IF Len(ss) = 0 THEN <<>> ELSE Head(ss) \o Flatten(Tail(ss))

\* The pairs of a text with the given equations.
Pairs(eqs) == [i \in 1..Len(eqs) |-> ExprPair(eqs[i])] \o <<EoiPair>>

\* Short equations over three names: a linear term on a or c and a public
\* term, or the quadratic term 2ac and a negated public term z.
MainNames == {"a", "c", "z"}
MainEqs ==
    {<<BiNode(<<>>, x), PubNode(p)>> : x \in {"a", "c"}, p \in MainNames}
    \cup {<<TriNode(<<CoeffNode(2)>>, "a", "c"), SignNode("-"), PubNode("z")>>}
MainInputs == {Pairs(eqs) : eqs \in SeqsUpTo(MainEqs, MaxExprs) \ {<<>>}}

\* The test text: a + b = c, then a*b = d.
TestText ==
    Pairs(<<<<BiNode(<<>>, "a"), BiNode(<<>>, "b"), PubNode("c")>>,
            <<TriNode(<<>>, "a", "b"), PubNode("d")>>>>)

\* Single equations of a linear term and a public term.
ValsEqs == {<<BiNode(<<>>, x), PubNode(p)>> : x \in {"a", "z"}, p \in {"a", "c"}}
ValsInputs == {Pairs(<<eq>>) : eq \in ValsEqs}

\* Single equations: an optional signed quadratic term 2ab, up to three
\* signed linear terms with coefficient 3 on a, b or c, an optional signed
\* public term d.
GateTris == {<<>>} \cup {<<SignNode(s), TriNode(<<CoeffNode(2)>>, "a", "b")>> : s \in Signs}
GateBis == {<<SignNode(s), BiNode(<<CoeffNode(3)>>, v)>> : s \in Signs, v \in {"a", "b", "c"}}
GatePubs == {<<>>} \cup {<<SignNode(s), PubNode("d")>> : s \in Signs}
GateEqs == {t \o Flatten(bs) \o p : t \in GateTris, bs \in SeqsUpTo(GateBis, 3), p \in GatePubs}
GateInputs == {Pairs(<<eq>>) : eq \in GateEqs}

\* The equations 2*a*b +- 3*c +- e: four names, two of them on linear terms
\* only.
WideEqs ==
    {<<TriNode(<<CoeffNode(2)>>, "a", "b"), SignNode(s1), BiNode(<<CoeffNode(3)>>, "c"),
       SignNode(s2), BiNode(<<>>, "e")>> : s1 \in Signs, s2 \in Signs}
WideInputs == {Pairs(<<eq>>) : eq \in WideEqs}

\* The equation q_m*a*b + q_l*a = -c and its variant with negated
\* coefficients, -q_m*a*b - q_l*a = -c.
WorkedEqs ==
    {<<SignNode(s), TriNode(<<CoeffNode(q_m)>>, "a", "b"),
       SignNode(s), BiNode(<<CoeffNode(q_l)>>, "a"),
       SignNode("-"), PubNode("c")>> : s \in Signs, q_m \in 1..MaxVal, q_l \in 1..MaxVal}
WorkedInputs == {Pairs(<<eq>>) : eq \in WorkedEqs}

\* Single equations over six names, unsigned and without coefficients: an
\* optional quadratic term, up to three linear terms, an optional public
\* term.
CheckTris == {<<>>, <<TriNode(<<>>, "a", "b")>>, <<TriNode(<<>>, "a", "a")>>}
CheckBis == {<<BiNode(<<>>, v)>> : v \in {"a", "c", "d", "e"}}
CheckPubs == {<<>>, <<PubNode("z")>>, <<PubNode("c")>>}
CheckEqs == {t \o Flatten(bs) \o p : t \in CheckTris, bs \in SeqsUpTo(CheckBis, 3), p \in CheckPubs}
CheckInputs == {Pairs(<<eq>>) : eq \in CheckEqs}

\* Equations that break none, one or several of the five rules:
\*   a = z                   none
\*   a*b + a*c               two quadratic terms
\*   a*b + a*a               two quadratic terms, the last with equal operands
\*   a*a                     equal quadratic operands
\*   a*b + c + d = z         five names
\*   a*b + c + d + e = z     six names
\*   a + a                   a repeated linear variable
\*   a = a                   the public name is a linear variable
\*   a*a + c + c = a         equal operands, repeated variable, public collision
\*   a*b + c + d + d = z     five names, repeated variable
OrderEqs ==
    {<<BiNode(<<>>, "a"), PubNode("z")>>,
     <<TriNode(<<>>, "a", "b"), TriNode(<<>>, "a", "c")>>,
     <<TriNode(<<>>, "a", "b"), TriNode(<<>>, "a", "a")>>,
     <<TriNode(<<>>, "a", "a")>>,
     <<TriNode(<<>>, "a", "b"), BiNode(<<>>, "c"), BiNode(<<>>, "d"), PubNode("z")>>,
     <<TriNode(<<>>, "a", "b"), BiNode(<<>>, "c"), BiNode(<<>>, "d"), BiNode(<<>>, "e"),
       PubNode("z")>>,
     <<BiNode(<<>>, "a"), BiNode(<<>>, "a")>>,
     <<BiNode(<<>>, "a"), PubNode("a")>>,
     <<TriNode(<<>>, "a", "a"), BiNode(<<>>, "c"), BiNode(<<>>, "c"), PubNode("a")>>,
     <<TriNode(<<>>, "a", "b"), BiNode(<<>>, "c"), BiNode(<<>>, "d"), BiNode(<<>>, "d"),
       PubNode("z")>>}
OrderInputs == {Pairs(eqs) : eqs \in SeqsUpTo(OrderEqs, MaxExprs) \ {<<>>}}

\* Equations a*b, c, d (d the public term) in which each term has a "+", a
\* "-" or no sign node before it, and texts of up to MaxExprs of them.
OptSigns == {<<>>} \cup {<<SignNode(s)>> : s \in Signs}
SignEqs ==
    {s1 \o <<TriNode(<<>>, "a", "b")>> \o s2 \o <<BiNode(<<>>, "c")>> \o s3 \o <<PubNode("d")>> :
        s1 \in OptSigns, s2 \in OptSigns, s3 \in OptSigns}
SignInputs == {Pairs(eqs) : eqs \in SeqsUpTo(SignEqs, MaxExprs) \ {<<>>}}

\* Texts of n copies of the equation a = c.
PadInputs == {Pairs([i \in 1..n |-> <<BiNode(<<>>, "a"), PubNode("c")>>]) : n \in 0..MaxPadExprs}

\* A name no equation uses.
UnknownName == "x"

\* set_vals calls of one pair that names a public input of the table or an
\* unknown name.
PublicCalls ==
    {<<[name |-> n, val |-> v]>> :
        n \in {x \in DOMAIN vars : vars[x].role = "PublicInput"} \cup {UnknownName},
        v \in 1..MaxVal}

\* set_vals calls that give every name of the table the value 1 or MaxVal,
\* in ascending name order.
FullCalls ==
    LET names == SelectSeq(NameOrder, LAMBDA n : n \in DOMAIN vars) IN
    {[i \in 1..Len(names) |-> [name |-> names[i], val |-> f[i]]] :
        f \in [1..Len(names) -> {1, MaxVal}]}

\* The solution of the test text, a = 1, b = 1, c = 2, d = 1, for the names
\* the table has.
Solution ==
    <<[name |-> "a", val |-> 1], [name |-> "b", val |-> 1],
      [name |-> "c", val |-> 2], [name |-> "d", val |-> 1]>>
SolutionCalls == {SelectSeq(Solution, LAMBDA p : p.name \in DOMAIN vars)}

\* set_vals calls of at most MaxPairs pairs with non-zero values.
AnyCalls ==
    SeqsUpTo([name : (DOMAIN vars) \cup {UnknownName}, val : 1..MaxVal], MaxPairs)

\* ---------------------------------------------------- HashMap iteration

Ascending(S) == SelectSeq(NameOrder, LAMBDA n : n \in S)
Reverse(s) == [i \in 1..Len(s) |-> s[Len(s) + 1 - i]]
AllOrders(S) ==
    {p \in [1..Cardinality(S) -> S] : \A i, j \in 1..Cardinality(S) : p[i] = p[j] => i = j}

\* The orders in which a table with key set S may be iterated; the order
\* of one table does not change while no key is added or removed.
IterOrders(S) ==
    IF Cardinality(S) <= MaxPermNames THEN AllOrders(S)
    ELSE {Ascending(S), Reverse(Ascending(S))}

\* ------------------------------------------------------------------ plangc

\* The files next to the circuit file c.plang, and two files the options
\* --params and --key can name. A file is absent or holds the bytes of
\* public parameters, of a prover key, of verifier data or of a proof.
FileNames == {"c.pp", "c.pk", "c.vd", "c.proof", "alt.pp", "alt.pk"}
NoFiles == [f \in FileNames |-> "absent"]

\* T::from_slice on the bytes of a file: the value when the bytes are those
\* of a T; on other bytes the library fails or returns some other T.
FromSlice(kind, content, slice) ==
    IF content = kind THEN [ok |-> TRUE, val |-> kind]
    ELSE IF slice = "err" THEN [ok |-> FALSE, val |-> ""]
    ELSE [ok |-> TRUE, val |-> "garbage"]

\* get_pp_or_generate_and_write
get_pp_or_generate_and_write(fs, params, slice) ==
    IF IsSome(params)
    THEN IF fs[Unwrap(params)] = "absent" THEN [res |-> "Io", fs |-> fs, pp |-> ""]
         ELSE LET r == FromSlice("pp", fs[Unwrap(params)], slice) IN
              [res |-> IF r.ok THEN "ok" ELSE "Plonk", fs |-> fs, pp |-> r.val]
    ELSE IF fs["c.pp"] # "absent"
    THEN LET r == FromSlice("pp", fs["c.pp"], slice) IN
         [res |-> IF r.ok THEN "ok" ELSE "Plonk", fs |-> fs, pp |-> r.val]
    ELSE [res |-> "ok", fs |-> [fs EXCEPT !["c.pp"] = "pp"], pp |-> "pp"]

\* The prover key of the prove command: from the --key file, else from the
\* file circuit_file.with_extension("pp"), else by compiling, which runs
\* the gadget and writes the key to the .pk file.
ProverKeyOf(fs, key, c, order, slice) ==
    LET FromFile(name) ==
            LET r == FromSlice("pk", fs[name], slice) IN
            [res |-> IF r.ok THEN "ok" ELSE "Plonk", fs |-> fs, pk |-> r.val,
             key_read |-> name, compiled |-> FALSE]
        Failed(res) ==
            [res |-> res, fs |-> fs, pk |-> "", key_read |-> "", compiled |-> FALSE]
    IN IF IsSome(key)
       THEN IF fs[Unwrap(key)] = "absent" THEN Failed("Io") ELSE FromFile(Unwrap(key))
       ELSE IF fs["c.pp"] # "absent" THEN FromFile("c.pp")
       ELSE IF gadget(c.exprs, c.vars, order).fault # "none" THEN Failed("panicked")
       ELSE [res |-> "ok", fs |-> [fs EXCEPT !["c.pk"] = "pk"], pk |-> "pk",
             key_read |-> "", compiled |-> TRUE]

\* The steps of a command are chained through one-element sets, so that
\* each step's value is computed once.

\* The end of a run of the prove command: its result, the files it leaves,
\* whether it got as far as the prover key, the file it parsed as the key,
\* and whether it compiled the circuit.
ProveEnded(res, fs, at_key, key_read, compiled) ==
    [res |-> res, fs |-> fs, at_key |-> at_key, key_read |-> key_read,
     compiled |-> compiled]

\* The prove command from circuit.prove on: the proof is written to the
\* .proof file.
ProveWithKey(c, pp, pk, order) ==
    IF pk.res # "ok" THEN ProveEnded(pk.res, pk.fs, TRUE, pk.key_read, pk.compiled)
    ELSE IF gadget(c.exprs, c.vars, order).fault # "none"
    THEN ProveEnded("panicked", pk.fs, TRUE, pk.key_read, pk.compiled)
    ELSE ProveEnded("ok",
                    [pk.fs EXCEPT !["c.proof"] =
                         IF pk.pk = "pk" /\ pp.pp = "pp" THEN "proof" ELSE "garbage"],
                    TRUE, pk.key_read, pk.compiled)

\* The prove command from the prover key on.
ProveWithParams(c, pp, key, order, slice) ==
    IF pp.res # "ok" THEN ProveEnded(pp.res, pp.fs, FALSE, "", FALSE)
    ELSE CHOOSE r \in {ProveWithKey(c, pp, pk, order) :
                       pk \in {ProverKeyOf(pp.fs, key, c, order, slice)}} : TRUE

\* The prove command from the public parameters on.
ProveWithVals(fs, c, sv, params, key, order, slice) ==
    IF ~sv.res.ok THEN ProveEnded("NoSuchValue", fs, FALSE, "", FALSE)
    ELSE CHOOSE r \in {ProveWithParams(c1, pp, key, order, slice) :
                       c1 \in {[c EXCEPT !.vars = sv.vars]},
                       pp \in {get_pp_or_generate_and_write(fs, params, slice)}} : TRUE

\* The prove command from set_vals on.
ProveParsed(fs, c, params, key, vals, order, slice) ==
    IF c.err # "none" THEN ProveEnded(c.err, fs, FALSE, "", FALSE)
    ELSE CHOOSE r \in {ProveWithVals(fs, c, sv, params, key, order, slice) :
                       sv \in {set_vals(c.vars, vals)}} : TRUE

\* The prove command: parse, set_vals, public parameters, prover key,
\* proof.
prove_command(fs, text, params, key, vals, order, slice) ==
    CHOOSE r \in {ProveParsed(fs, c, params, key, vals, order, slice) :
                  c \in {from_grammar(text)}} : TRUE

\* The compile command without --output: parse, public parameters from the
\* --params file or a fresh setup, compile, keys written to .pk and .vd.
CompileParsed(fs, c, params, order, slice) ==
    IF c.err # "none" THEN [res |-> c.err, fs |-> fs]
    ELSE LET pp == IF IsSome(params)
                   THEN IF fs[Unwrap(params)] = "absent" THEN [ok |-> FALSE, val |-> "Io"]
                        ELSE FromSlice("pp", fs[Unwrap(params)], slice)
                   ELSE [ok |-> TRUE, val |-> "pp"]
         IN
    IF ~pp.ok THEN [res |-> IF pp.val = "Io" THEN "Io" ELSE "Plonk", fs |-> fs]
    ELSE IF gadget(c.exprs, c.vars, order).fault # "none" THEN [res |-> "panicked", fs |-> fs]
    ELSE [res |-> "ok", fs |-> [fs EXCEPT !["c.pk"] = "pk", !["c.vd"] = "vd"]]

compile_command(fs, text, params, order, slice) ==
    CHOOSE r \in {CompileParsed(fs, c, params, order, slice) : c \in {from_grammar(text)}} : TRUE

\* The generate-params command without --output.
generate_params_command(fs, text) ==
    LET c == from_grammar(text) IN
    IF c.err # "none" THEN [res |-> c.err, fs |-> fs]
    ELSE [res |-> "ok", fs |-> [fs EXCEPT !["c.pp"] = "pp"]]

\* ----------------------------------------------------------------- actions

InitWith(inputs) ==
    /\ grammar \in inputs
    /\ pc = "new"
    /\ err = "none"
    /\ exprs = <<>>
    /\ vars = EmptyMap
    /\ iterOrder = <<>>
    /\ call = None
    /\ out = [op |-> "none"]

\* PlangCircuit::parse, after the text has been parsed into pairs.
Parse ==
    /\ pc = "new"
    /\ LET r == from_grammar(grammar) IN
       /\ err' = r.err
       /\ exprs' = r.exprs
       /\ vars' = r.vars
       /\ pc' = IF r.err = "none" THEN "built" ELSE "rejected"
       /\ iterOrder' \in IterOrders(DOMAIN r.vars)
    /\ out' = [op |-> "parse"]
    /\ UNCHANGED <<grammar, call, files>>

\* The caller builds the vals argument of its next set_vals call.
Supply(calls) ==
    /\ pc = "built"
    /\ call = None
    /\ \E vals \in calls : call' = Some(vals)
    /\ out' = [op |-> "none"]
    /\ UNCHANGED <<grammar, pc, err, exprs, vars, iterOrder, files>>

\* PlangCircuit::set_vals with the argument the caller built; out also
\* records whether the call changed an entry of the table.
SetVals ==
    /\ pc = "built"
    /\ IsSome(call)
    /\ LET r == set_vals(vars, Unwrap(call)) IN
       /\ vars' = r.vars
       /\ out' = [op |-> "set_vals", res |-> r.res,
                  changed |-> r.vars # vars]
    /\ call' = None
    /\ UNCHANGED <<grammar, pc, err, exprs, iterOrder, files>>

\* As Gadget, but the lowering takes the values out of the table.
Gadget_Consuming ==
    /\ pc = "built"
    /\ call = None
    /\ LET r == gadget(exprs, vars, iterOrder) IN
       /\ out' = [op |-> "gadget", fault |-> r.fault, witnesses |-> r.witnesses,
                  ws |-> r.ws, gates |-> r.gates]
       /\ pc' = IF r.fault = "none" THEN "built" ELSE "panicked"
    /\ vars' = [n \in DOMAIN vars |-> [vars[n] EXCEPT !.val = 0]]
    /\ UNCHANGED <<grammar, err, exprs, iterOrder, call, files>>

\* Circuit::gadget on a fresh composer; a fault ends the process.
Gadget ==
    /\ pc = "built"
    /\ call = None
    /\ LET r == gadget(exprs, vars, iterOrder) IN
       /\ out' = [op |-> "gadget", fault |-> r.fault, witnesses |-> r.witnesses,
                  ws |-> r.ws, gates |-> r.gates]
       /\ pc' = IF r.fault = "none" THEN "built" ELSE "panicked"
    /\ UNCHANGED <<grammar, err, exprs, vars, iterOrder, call, files>>

\* Circuit::public_inputs.
PublicInputs ==
    /\ pc = "built"
    /\ call = None
    /\ out' = [op |-> "public_inputs", pinputs |-> public_inputs(vars, iterOrder)]
    /\ UNCHANGED <<grammar, pc, err, exprs, vars, iterOrder, call, files>>

\* Circuit::padded_gates, in a build with or without overflow checks.
PaddedGates ==
    /\ pc = "built"
    /\ call = None
    /\ \E checked \in BOOLEAN :
         LET r == padded_gates(exprs, checked) IN
         /\ out' = [op |-> "padded_gates", panic |-> r.panic, bits |-> r.bits]
         /\ pc' = IF r.panic THEN "panicked" ELSE "built"
    /\ UNCHANGED <<grammar, err, exprs, vars, iterOrder, call, files>>

\* The choices a run of a command leaves open: the iteration order of the
\* table of the circuit it parses, and what from_slice makes of foreign bytes.
CommandOrders == IterOrders(DOMAIN from_grammar(grammar).vars)
SliceOutcomes == {"err", "garbage"}

\* One run of `plangc prove c.plang`, with or without --params, --key, --vals.
ProveCmd ==
    /\ \E params \in {None, Some("alt.pp")}, key \in {None, Some("alt.pk")},
          vals \in {<<>>, <<[name |-> UnknownName, val |-> 1]>>},
          order \in CommandOrders, slice \in SliceOutcomes :
         \E r \in {prove_command(files, grammar, params, key, vals, order, slice)} :
         /\ files' = r.fs
         /\ out' = [op |-> "prove", res |-> r.res, key |-> key, at_key |-> r.at_key,
                    key_read |-> r.key_read, compiled |-> r.compiled]
    /\ UNCHANGED <<grammar, pc, err, exprs, vars, iterOrder, call>>

\* One run of `plangc compile c.plang`, with or without --params.
CompileCmd ==
    /\ \E params \in {None, Some("alt.pp")}, order \in CommandOrders,
          slice \in SliceOutcomes :
         \E r \in {compile_command(files, grammar, params, order, slice)} :
         /\ files' = r.fs
         /\ out' = [op |-> "compile", res |-> r.res]
    /\ UNCHANGED <<grammar, pc, err, exprs, vars, iterOrder, call>>

\* One run of `plangc generate-params c.plang`.
GenerateParamsCmd ==
    /\ \E r \in {generate_params_command(files, grammar)} :
       /\ files' = r.fs
       /\ out' = [op |-> "generate-params", res |-> r.res]
    /\ UNCHANGED <<grammar, pc, err, exprs, vars, iterOrder, call>>

\* The files a user may have put next to the circuit.
UserFiles ==
    {[NoFiles EXCEPT !["alt.pp"] = pp, !["alt.pk"] = pk] :
        pp \in {"absent", "pp"}, pk \in {"absent", "pk"}}

\* The circuit files of the command runs: the single short equations, the
\* test text, and a text whose circuit the gadget faults on.
CliInputs ==
    {Pairs(<<eq>>) : eq \in MainEqs}
    \cup {TestText,
          Pairs(<<<<BiNode(<<>>, "a"), PubNode("c")>>, <<BiNode(<<>>, "c"), PubNode("a")>>>>)}

\* Runs of the plangc commands on one circuit file.
InitCli == InitWith(CliInputs) /\ files \in UserFiles
NextCli == ProveCmd \/ CompileCmd \/ GenerateParamsCmd
SpecCli == InitCli /\ [][NextCli]_vars_all

\* The life of a circuit over a few short equations.
Init == InitWith(MainInputs \cup {TestText}) /\ files = NoFiles
Next == Parse \/ Supply(PublicCalls) \/ SetVals \/ Gadget \/ PublicInputs \/ PaddedGates
Spec == Init /\ [][Next]_vars_all

\* The lowering of single equations under full assignments.
InitGate == InitWith(GateInputs \cup WorkedInputs \cup WideInputs) /\ files = NoFiles
NextGate == Parse \/ Supply(FullCalls \cup SolutionCalls) \/ SetVals \/ Gadget
SpecGate == InitGate /\ [][NextGate]_vars_all

\* set_vals under arbitrary short calls.
InitVals == InitWith(ValsInputs) /\ files = NoFiles
NextVals == Parse \/ Supply(AnyCalls) \/ SetVals \/ PublicInputs
SpecVals == InitVals /\ [][NextVals]_vars_all

\* Construction and padded_gates over wide equations and long texts.
InitBuild ==
    InitWith(CheckInputs \cup PadInputs \cup OrderInputs \cup SignInputs) /\ files = NoFiles
NextBuild == Parse \/ PaddedGates
SpecBuild == InitBuild /\ [][NextBuild]_vars_all

\* ------------------------------------------------------- claim vocabulary

Signed(minus, x) == IF minus THEN -x ELSE x

\* The value of a wire of a gate.
WireVal(w, witnesses) == IF w = ZeroWire THEN 0 ELSE witnesses[w]

\* The left-hand side of the gate equation q_m*a*b + q_l*a + q_r*b + q_o*o + PI = 0.
GateEval(g, witnesses) ==
    g.q_m * WireVal(g.a, witnesses) * WireVal(g.b, witnesses)
    + g.q_l * WireVal(g.a, witnesses)
    + g.q_r * WireVal(g.b, witnesses)
    + g.q_o * WireVal(g.o, witnesses)
    + g.pi

RECURSIVE BisValue(_, _, _)
BisValue(bis, j, m) ==
    IF j > Len(bis) THEN 0
    ELSE Signed(bis[j].minus, bis[j].coeff * m[bis[j].var].val) + BisValue(bis, j + 1, m)

\* The equation as written: signed terms on the left, signed public value
\* on the right.
EquationHolds(expr, m) ==
    (IF IsSome(expr.tri)
     THEN Signed(Unwrap(expr.tri).minus,
                 Unwrap(expr.tri).coeff * m[Unwrap(expr.tri).lvar].val
                                        * m[Unwrap(expr.tri).rvar].val)
     ELSE 0)
    + BisValue(expr.bis, 1, m)
    = (IF IsSome(expr.public)
       THEN Signed(Unwrap(expr.public).minus, m[Unwrap(expr.public).var].val)
       ELSE 0)

ExprNames(expr) == PublicVars(expr) \cup TriVars(expr) \cup BiVars(expr)

GadgetReturned == out.op = "gadget" /\ out.fault = "none"

\* ------------------------------------------------------------------ claims

\* C1: for every equation of a constructed circuit and every assignment,
\* the gate lowering emits for it is satisfied exactly when the equation as
\* written is satisfied, with or without a quadratic term.
C1_GateSatisfiedIffEquation ==
    GadgetReturned =>
        \A i \in 1..Len(exprs) :
            (GateEval(out.gates[i], out.witnesses) = 0) <=> EquationHolds(exprs[i], vars)

\* C2: every linear term contributes its coefficient, negated exactly when
\* its sign flag is set, to the selector of the wire its variable is on,
\* whether or not the equation has a quadratic term; the quadratic term's
\* selector follows the same rule.
C2_OneSignConvention ==
    GadgetReturned =>
        \A i \in 1..Len(exprs) :
            LET g == out.gates[i] e == exprs[i] IN
            /\ IsSome(e.tri) => g.q_m = Signed(Unwrap(e.tri).minus, Unwrap(e.tri).coeff)
            /\ \A j \in 1..Len(e.bis) :
                 LET bi == e.bis[j] w == out.ws[bi.var] IN
                 /\ g.a = w => g.q_l = Signed(bi.minus, bi.coeff)
                 /\ g.b = w => g.q_r = Signed(bi.minus, bi.coeff)
                 /\ g.o = w => g.q_o = Signed(bi.minus, bi.coeff)

\* C3: a variable that some equation names as its public-input term has the
\* role PublicInput in the derived table, whatever later equations use it as.
C3_PublicRoleKept ==
    pc \in {"built", "panicked"} =>
        \A i \in 1..Len(exprs) :
            IsSome(exprs[i].public) =>
                vars[Unwrap(exprs[i].public).var].role = "PublicInput"

\* C4: lowering a constructed circuit never ends in an internal-consistency
\* fault.
C4_LoweringNeverFaults ==
    out.op = "gadget" => out.fault = "none"

\* C5: construction rejects with TooManyVars every equation with five or
\* more distinct names and no equation with four or fewer, so every
\* equation of a constructed circuit has at most four distinct names.
C5_AtMostFourNames ==
    /\ pc = "built" => \A i \in 1..Len(exprs) : Cardinality(ExprNames(exprs[i])) <= 4
    /\ (pc = "rejected" /\ err = "TooManyVars") =>
          \E i \in 1..Len(ScanPairs(grammar).exprs) :
              Cardinality(ExprNames(ScanPairs(grammar).exprs[i])) >= 5

\* The value the last pair naming n supplies, or old if no pair names n.
LastSupplied(vals, n, old) ==
    LET named == {k \in 1..Len(vals) : vals[k].name = n} IN
    IF named = {} THEN old
    ELSE vals[CHOOSE k \in named : \A l \in named : l <= k].val

\* A step that is a set_vals call: its argument is in call, its result in out'.
SetValsStep == IsSome(call) /\ call' = None

\* C6: construction leaves every value zero; every variable of a constructed
\* circuit has the role derivation gave it; a successful set_vals keeps
\* every role and leaves each variable with the value of the last pair that
\* names it, or with its previous value if none does.
C6_RolesKeptLastValueWins ==
    [][/\ (pc = "new" /\ pc' = "built") =>
             \A n \in DOMAIN vars' : vars'[n].val = 0
       /\ pc' = "built" =>
             /\ DOMAIN vars' = DOMAIN vars_from_exprs(exprs')
             /\ \A n \in DOMAIN vars' : vars'[n].role = vars_from_exprs(exprs')[n].role
       /\ (SetValsStep /\ out'.res.ok) =>
             /\ DOMAIN vars' = DOMAIN vars
             /\ \A n \in DOMAIN vars :
                  /\ vars'[n].role = vars[n].role
                  /\ vars'[n].val = LastSupplied(Unwrap(call), n, vars[n].val)
      ]_vars_all

C6_Witness ==
    /\ out.op = "set_vals" /\ out.res.ok
    /\ \E n \in DOMAIN vars : vars[n].role = "PublicInput" /\ vars[n].val = 2
    /\ \E n \in DOMAIN vars : vars[n].role = "Witness" /\ vars[n].val = 1

\* C7: set_vals fails with NoSuchValue of the first name that is not in the
\* table, succeeds when every name is in the table, and never changes the
\* set of names of the table.
C7_UnknownNameRejected ==
    [][SetValsStep =>
          LET vals == Unwrap(call)
              unknown == {k \in 1..Len(vals) : vals[k].name \notin DOMAIN vars}
          IN /\ DOMAIN vars' = DOMAIN vars
             /\ unknown = {} => out'.res = SetOk
             /\ unknown # {} =>
                  out'.res = NoSuchValue(vals[CHOOSE k \in unknown :
                                                 \A l \in unknown : k <= l].name)
      ]_vars_all

C7_Witness ==
    /\ out.op = "set_vals"
    /\ out.res = NoSuchValue(UnknownName)
    /\ UnknownName \notin DOMAIN vars
    /\ DOMAIN vars = {"a", "c"}

PublicNames == {n \in DOMAIN vars : vars[n].role = "PublicInput"}

\* C8: public_inputs returns the current value of every PublicInput
\* variable, once each, in ascending order of name, whatever the order of
\* the equations and the iteration order of the table.
C8_PublicInputsSortedByName ==
    out.op = "public_inputs" =>
        LET names == Ascending(PublicNames) IN
        /\ Len(out.pinputs) = Len(names)
        /\ \A k \in 1..Len(names) : out.pinputs[k] = vars[names[k]].val

C8_Witness ==
    /\ out.op = "public_inputs"
    /\ PublicNames = {"a", "z"}
    /\ Unwrap(exprs[1].public).var = "z"
    /\ iterOrder[1] = "z"
    /\ vars["a"].val = 1 /\ vars["z"].val = 2
    /\ out.pinputs = <<1, 2>>

\* C9: lowering a constructed circuit appends exactly one gate per equation,
\* the i-th gate being the one built from the i-th equation.
C9_OneGatePerEquation ==
    out.op = "gadget" =>
        /\ Len(out.gates) = Len(exprs)
        /\ \A i \in 1..Len(exprs) : out.gates[i] = LowerExpr(exprs[i], vars, out.ws).c

\* 2^k as a set of one-bit positions.
Pow2(k) == {k}

\* C10: padded_gates returns 2^(n+1) for n equations, without overflow,
\* for every n whose shift n+1 is below the width of the machine word.
C10_PaddedGatesPowerOfTwo ==
    (out.op = "padded_gates" /\ Len(exprs) + 1 < WordBits) =>
        /\ ~out.panic
        /\ out.bits = Pow2(Len(exprs) + 1)

C10_Witness ==
    /\ out.op = "padded_gates"
    /\ Len(exprs) = WordBits - 2
    /\ out.bits = {WordBits - 1}

\* C11 (as stated): for every equation count n >= 1 padded_gates returns the
\* next power of two at or above twice the number of equations,
\* 2^(ceil(log2(n)) + 1).
C11_NextPowerOfTwoAboveTwice ==
    (out.op = "padded_gates" /\ Len(exprs) >= 1 /\ Len(exprs) + 1 < WordBits) =>
        /\ ~out.panic
        /\ out.bits = Pow2(CeilLog2(Len(exprs)) + 1)

\* C11 (amended): for every equation count n >= 1 whose shift n+1 is below
\* the width of the machine word, padded_gates returns 2^(n+1), a power of
\* two whose exponent n+1 is larger than ceil(log2(n)) + 1: it is above
\* twice the number of equations but is not the next power of two there.
C11_TwoToEquationsPlusOne ==
    (out.op = "padded_gates" /\ Len(exprs) >= 1 /\ Len(exprs) + 1 < WordBits) =>
        /\ ~out.panic
        /\ out.bits = Pow2(Len(exprs) + 1)
        /\ Len(exprs) + 1 > CeilLog2(Len(exprs)) + 1

C11_Witness ==
    /\ out.op = "padded_gates"
    /\ Len(exprs) = 3
    /\ CeilLog2(Len(exprs)) + 1 = 3
    /\ out.bits = Pow2(4)

\* The expr pairs of the input, and the quadratic-term nodes of one of them.
InputExprs == SelectSeq(grammar, LAMBDA pair : pair.rule = "expr")
TriNodes(pair) == SelectSeq(pair.inner, LAMBDA node : node.rule = "tri_term")

\* The k-th equation of the input has a quadratic term with equal operands.
HasSameTri(k) ==
    \E j \in 1..Len(TriNodes(InputExprs[k])) :
        LET vs == TermVars(TriNodes(InputExprs[k])[j].inner, 1) IN
        vs[Len(vs) - 1] = vs[Len(vs)]

InputHasSameTri == \E k \in 1..Len(InputExprs) : HasSameTri(k)
InputHasManyTris == \E k \in 1..Len(InputExprs) : Len(TriNodes(InputExprs[k])) > 1

BreaksDistinctOperands(e) == IsSome(e.tri) /\ Unwrap(e.tri).lvar = Unwrap(e.tri).rvar
BreaksNameCount(e) == Cardinality(ExprNames(e)) >= 5
BreaksDistinctLinear(e) == \E j, k \in 1..Len(e.bis) : j # k /\ e.bis[j].var = e.bis[k].var
BreaksPublicSingular(e) ==
    IsSome(e.public) /\ Unwrap(e.public).var \in TriVars(e) \cup BiVars(e)

\* The error of the first of the four checks, in their order, that some
\* equation of es breaks, or "none".
FirstBrokenCheck(es) ==
    IF \E i \in 1..Len(es) : BreaksDistinctOperands(es[i]) THEN "SameTriVars"
    ELSE IF \E i \in 1..Len(es) : BreaksNameCount(es[i]) THEN "TooManyVars"
    ELSE IF \E i \in 1..Len(es) : BreaksDistinctLinear(es[i]) THEN "RepeatedVars"
    ELSE IF \E i \in 1..Len(es) : BreaksPublicSingular(es[i]) THEN "PublicVarNotSingular"
    ELSE "none"

\* C13: when every equation has at most one quadratic term, construction
\* fails with the error of the first check, in the order distinct operands,
\* name count, duplicate linear variable, public collision, that any
\* equation breaks, whatever the order of the equations, and succeeds
\* exactly when no equation breaks any check.
C13_ErrorByCheckOrder ==
    (pc # "new" /\ ~InputHasManyTris) =>
        LET expected == FirstBrokenCheck(ScanPairs(grammar).exprs) IN
        /\ err = expected
        /\ (pc = "rejected") <=> (expected # "none")

WorkedCase ==
    /\ Len(exprs) = 1
    /\ IsSome(exprs[1].tri)
    /\ Unwrap(exprs[1].tri).lvar = "a" /\ Unwrap(exprs[1].tri).rvar = "b"
    /\ Len(exprs[1].bis) = 1
    /\ exprs[1].bis[1].var = "a"
    /\ exprs[1].bis[1].minus = Unwrap(exprs[1].tri).minus
    /\ exprs[1].public = Some(Public(TRUE, "c"))
    /\ vars = [a |-> Witness(1), b |-> Witness(1), c |-> PublicInput(2)]

\* C15: for the equation q_m*a*b + q_l*a = -c and for its variant with
\* negated coefficients, with c a public input and a = 1, b = 1, c = 2
\* supplied, the gate of an equation that these values satisfy evaluates to
\* zero.
C15_WorkedExampleGateIsZero ==
    (GadgetReturned /\ WorkedCase /\ EquationHolds(exprs[1], vars)) =>
        GateEval(out.gates[1], out.witnesses) = 0

\* C16: the gates of a circuit, wire indices included, are those a lowering
\* that appends the witnesses in a fixed order (ascending names: a, then b)
\* produces, whatever the iteration order of the table; for the test text
\* they are the gates of the hand-written TestCircuit.
C16_GatesIndependentOfIterationOrder ==
    GadgetReturned =>
        /\ out.gates = gadget(exprs, vars, Ascending(DOMAIN vars)).gates
        /\ grammar = TestText =>
              out.gates = TestCircuitGates(vars["c"].val, vars["d"].val)

\* C17: in the prove command without --key, the prover key is read from the
\* .pk file if it can be read; only otherwise is the circuit compiled and
\* the key written to the .pk file; the .pp file is never parsed as a
\* prover key.
C17_ProverKeyFromPkFile ==
    [][(out'.op = "prove" /\ out'.at_key /\ out'.key = None) =>
          /\ files["c.pk"] # "absent" => (out'.key_read = "c.pk" /\ ~out'.compiled)
          /\ out'.compiled => (files["c.pk"] = "absent" /\ files'["c.pk"] = "pk")
          /\ out'.key_read # "c.pp"
      ]_vars_all

Abs(x) == IF x < 0 THEN -x ELSE x

\* The linear terms of an equation on a given variable, and on neither
\* operand of its quadratic term.
BisOn(e, v) == {j \in 1..Len(e.bis) : e.bis[j].var = v}
BisOnOthers(e) == {j \in 1..Len(e.bis) : e.bis[j].var \notin TriVars(e)}

\* C19: in the gate of an equation with a quadratic term, wire A is the
\* left operand and wire B the right operand; a linear term on the left
\* operand contributes its coefficient to the left selector, one on the
\* right operand to the right selector, and any other linear term is on
\* wire O and contributes its coefficient to the output selector; a
\* selector no linear term contributes to is zero, and wire O is the zero
\* wire when no linear term is bound to it.
C19_LinearTermsPlacedByOperand ==
    GadgetReturned =>
        \A i \in 1..Len(exprs) :
            IsSome(exprs[i].tri) =>
                LET g == out.gates[i]
                    e == exprs[i]
                    tri == Unwrap(e.tri)
                IN /\ g.a = out.ws[tri.lvar]
                   /\ g.b = out.ws[tri.rvar]
                   /\ \A j \in BisOn(e, tri.lvar) : Abs(g.q_l) = e.bis[j].coeff
                   /\ \A j \in BisOn(e, tri.rvar) : Abs(g.q_r) = e.bis[j].coeff
                   /\ \A j \in BisOnOthers(e) :
                        g.o = out.ws[e.bis[j].var] /\ Abs(g.q_o) = e.bis[j].coeff
                   /\ BisOn(e, tri.lvar) = {} => g.q_l = 0
                   /\ BisOn(e, tri.rvar) = {} => g.q_r = 0
                   /\ BisOnOthers(e) = {} => (g.o = ZeroWire /\ g.q_o = 0)

\* C20: in every equation of a constructed circuit that has a quadratic
\* term, at most one linear term names a variable that is neither operand
\* of the quadratic term.
C20_AtMostOneTermOnWireO ==
    pc = "built" =>
        \A i \in 1..Len(exprs) :
            IsSome(exprs[i].tri) => Cardinality(BisOnOthers(exprs[i])) <= 1

\* The wire and the selector the k-th linear term of e is expected on, or
\* the zero wire and a zero selector when e has fewer than k linear terms.
KthWire(e, k, ws) == IF k <= Len(e.bis) THEN ws[e.bis[k].var] ELSE ZeroWire
KthSelector(e, k) ==
    IF k <= Len(e.bis) THEN Signed(e.bis[k].minus, e.bis[k].coeff) ELSE 0

\* C21: in the gate of an equation without a quadratic term the first
\* linear term is on wire A with the left selector, the second on wire B
\* with the right selector, the third on wire O with the output selector,
\* each selector being that term's signed coefficient; wires and selectors
\* without a term keep their initial value and the multiplication selector
\* is zero.
C21_LinearTermsInParsedOrder ==
    GadgetReturned =>
        \A i \in 1..Len(exprs) :
            ~IsSome(exprs[i].tri) =>
                LET g == out.gates[i] e == exprs[i] IN
                /\ g.q_m = 0
                /\ g.a = KthWire(e, 1, out.ws) /\ g.q_l = KthSelector(e, 1)
                /\ g.b = KthWire(e, 2, out.ws) /\ g.q_r = KthSelector(e, 2)
                /\ g.o = KthWire(e, 3, out.ws) /\ g.q_o = KthSelector(e, 3)

C21_Witness ==
    /\ GadgetReturned
    /\ Len(exprs) = 1 /\ ~IsSome(exprs[1].tri)
    /\ Len(exprs[1].bis) = 3
    /\ exprs[1].bis[1].var = "c" /\ exprs[1].bis[3].var = "a"
    /\ exprs[1].bis[1].minus /\ ~exprs[1].bis[2].minus
    /\ out.gates[1].q_l = -3 /\ out.gates[1].q_r = 3
    /\ out.gates[1].a = out.ws["c"] /\ out.gates[1].o = out.ws["a"]

\* The values the gates consume, in emission order: for each gate that
\* carries a public term, the value of the public variable of its equation.
GatePublicValues ==
    LET gates == gadget(exprs, vars, iterOrder).gates
        carrying == SelectSeq([i \in 1..Len(gates) |-> i], LAMBDA i : gates[i].has_pi)
    IN [k \in 1..Len(carrying) |-> vars[Unwrap(exprs[carrying[k]].public).var].val]

\* C22: the public-input vector has one entry per gate that carries a
\* public term, the i-th entry being the value of the public variable of
\* the i-th such gate, also when the names are not in equation order and
\* when several equations use one public variable; so has the vector the
\* verify command builds from the (name, value) pairs of the public inputs.
C22_PublicInputsFollowGates ==
    (out.op = "public_inputs" /\ gadget(exprs, vars, iterOrder).fault = "none") =>
        /\ out.pinputs = GatePublicValues
        /\ verify_pinputs(NamedPinputs(vars, iterOrder, 1)) = GatePublicValues

\* C23: a set_vals call that fails with NoSuchValue at its k-th pair has
\* stored the values of the first k-1 pairs and of no later pair; the table
\* keeps its names and roles, and the circuit can be used again.
C23_FailedCallKeepsPrefix ==
    [][(SetValsStep /\ ~out'.res.ok) =>
          LET vals == Unwrap(call)
              k == CHOOSE k \in 1..Len(vals) :
                       /\ vals[k].name \notin DOMAIN vars
                       /\ \A l \in 1..(k - 1) : vals[l].name \in DOMAIN vars
              prefix == SubSeq(vals, 1, k - 1)
          IN /\ out'.res = NoSuchValue(vals[k].name)
             /\ DOMAIN vars' = DOMAIN vars
             /\ \A n \in DOMAIN vars :
                  /\ vars'[n].role = vars[n].role
                  /\ vars'[n].val = LastSupplied(prefix, n, vars[n].val)
             /\ pc' = "built"
      ]_vars_all

C23_Witness ==
    /\ out.op = "set_vals"
    /\ out.res = NoSuchValue(UnknownName)
    /\ out.changed
    /\ \E n \in DOMAIN vars : vars[n].val # 0
    /\ pc = "built"

\* The positions of the nodes of a rule in a node sequence, in order.
NodesAt(nodes, rule) ==
    SelectSeq([k \in 1..Len(nodes) |-> k], LAMBDA k : nodes[k].rule = rule)

\* The sign in force at position j: that of the last sign node before j,
\* clear when there is none.
SignBefore(nodes, j) ==
    LET signs == {k \in 1..(j - 1) : nodes[k].rule = "sign"} IN
    IF signs = {} THEN FALSE
    ELSE nodes[CHOOSE k \in signs : \A l \in signs : l <= k].str = "-"

\* C24: the sign flag of every quadratic, linear and public term of a
\* constructed circuit is the value of the last sign node before the term
\* in its own equation (set for "-"), and clear when no sign node precedes
\* it there; so a term without a sign node of its own has the sign of the
\* term before it, and no sign carries over from one equation to the next.
C24_SignOfLastSignNode ==
    pc = "built" =>
        \A i \in 1..Len(exprs) :
            LET nodes == InputExprs[i].inner
                tris == NodesAt(nodes, "tri_term")
                bis == NodesAt(nodes, "bi_term")
                pubs == NodesAt(nodes, "var")
            IN /\ IsSome(exprs[i].tri) <=> Len(tris) > 0
               /\ IsSome(exprs[i].tri) =>
                     Unwrap(exprs[i].tri).minus = SignBefore(nodes, tris[Len(tris)])
               /\ Len(exprs[i].bis) = Len(bis)
               /\ \A k \in 1..Len(bis) : exprs[i].bis[k].minus = SignBefore(nodes, bis[k])
               /\ IsSome(exprs[i].public) <=> Len(pubs) > 0
               /\ IsSome(exprs[i].public) =>
                     Unwrap(exprs[i].public).minus = SignBefore(nodes, pubs[Len(pubs)])

C24_Witness ==
    /\ pc = "built"
    /\ Len(exprs) = 2
    /\ InputExprs[1].inner =
          <<TriNode(<<>>, "a", "b"), SignNode("-"), BiNode(<<>>, "c"), PubNode("d")>>
    /\ ~Unwrap(exprs[1].tri).minus
    /\ exprs[1].bis[1].minus
    /\ Unwrap(exprs[1].public).minus
    /\ InputExprs[2].inner[1].rule = "tri_term"
    /\ ~Unwrap(exprs[2].tri).minus

\* C25: in every constructed circuit, also after any successful or failed
\* set_vals call, the names of the table are exactly the names the
\* equations reference and the equations are those construction produced;
\* no step after construction changes the equations, the names or a role.
C25_StructureFixedAfterConstruction ==
    [][pc' = "built" =>
          /\ DOMAIN vars' = UNION {ExprNames(exprs'[i]) : i \in 1..Len(exprs')}
          /\ exprs' = [i \in 1..Len(InputExprs) |-> ScannedExpr(InputExprs[i])]
          /\ pc = "built" =>
                /\ exprs' = exprs
                /\ DOMAIN vars' = DOMAIN vars
                /\ \A n \in DOMAIN vars : vars'[n].role = vars[n].role
      ]_vars_all

C25_Witness ==
    /\ pc = "built"
    /\ out.op = "set_vals" /\ ~out.res.ok
    /\ Len(exprs) = 2
    /\ DOMAIN vars = {"a", "c", "z"}
    /\ ExprNames(exprs[1]) # ExprNames(exprs[2])
    /\ \E n \in DOMAIN vars : vars[n].val # 0

====
